---- MODULE Spec2Model ----
(***************************************************************************)
(* Grocery e-commerce backend: the drizzle tables (drizzle/schema.ts), the *)
(* access layer (server/db.ts) and the tRPC router (server/routers.ts).    *)
(* One step of the model is one RPC call handled to completion, a tick of  *)
(* the wall clock, or an out-of-band administrator write of a coupon row.  *)
(***************************************************************************)
EXTENDS Integers, FiniteSets, Sequences, TLC

\* ------------------------------------------------------------------------
\* Nullable columns and optional inputs: {} is null/undefined, {v} is v.
\* ------------------------------------------------------------------------
None == {}
Some(v) == {v}

\* ------------------------------------------------------------------------
\* Bounds of the model
\* ------------------------------------------------------------------------
MaxCartRows == 2
MaxWishlistRows == 3
MaxAddressRows == 1
MaxOrderRows == 2
MaxOrderItemRows == 2
MaxReviewRows == 1
MaxUserRows == 2
MaxSeedRows == 1
MaxTime == 2

\* Input domains (z.number() accepts every number, so 0 is a legal quantity)
Users == {1, 2}
Products == {1, 2}
Quantities == {0, 1, 2}
CartIds == 1..(MaxCartRows + 1)
AddressIds == 1..(MaxAddressRows + 1)
OrderIds == 1..(MaxOrderRows + 1)
AddressTypes == {"home", "work"}
Statuses == {"pending", "confirmed", "processing", "shipped", "delivered", "cancelled"}
PaymentStatuses == {"pending", "completed", "failed"}
PaymentIds == {None, Some("pay_1")}
RandomSuffixes == {0, 1}
Ratings == {0, 1, 5, 6}
Prices == {1, 2}
\* the money figures a client may send with orders.create
OrderFigures ==
    [subtotal : {2},
     discountAmount : {None, Some(1)},
     deliveryCharge : {None, Some(1)},
     totalAmount : {-1, 1, 2}]
OrderAmounts == {-1, 1, 2}
CouponCodes == {"SAVE"}
CodeInputs == CouponCodes \cup {"NOPE"}
CouponRows ==
    [code : CouponCodes,
     isActive : BOOLEAN,
     expiryDate : {None, Some(1)},
     usageLimit : {None, Some(0), Some(1)},
     usageCount : {0, 1},
     minOrderAmount : {None, Some(0), Some(2)}]

\* ENV.ownerOpenId, and the identities the OAuth callback may upsert
OwnerOpenId == "owner"
OpenIds == {"", OwnerOpenId, "alice"}
Roles == {"user", "admin"}
\* a text field of InsertUser: undefined, null or a string
TextInputs == {None, Some(None), Some(Some("x"))}
UserInputs ==
    [openId : OpenIds,
     name : TextInputs,
     email : {None},
     loginMethod : {None, Some(Some("oauth"))},
     lastSignedIn : {None, Some(1)},
     role : {None, Some("user"), Some("admin")}]
\* what a client may send to reviews.create and orders.create, undeclared
\* keys included
ReviewInputs ==
    [productId : Products, rating : Ratings]
    \cup {[productId |-> 1, rating |-> 5, isVerified |-> TRUE, userId |-> 2]}
ForgedFigures ==
    [subtotal |-> 2, discountAmount |-> None, deliveryCharge |-> None, totalAmount |-> 2,
     userId |-> 2, orderNumber |-> <<0, 0>>, paymentStatus |-> "completed",
     status |-> "delivered"]
ProductRows ==
    [id : {1}, categoryId : {1}, name : {"milk", "oat milk"}, price : Prices,
     isActive : {TRUE}, isFeatured : {FALSE}]
\* the catalogue an administrator keeps: two ids per table, each row shown
\* or hidden
CatalogueIds == {1, 2}
Slugs == {"dairy", "books", "toys"}
SlugOf(id) == IF id = 1 THEN "dairy" ELSE "books"
CategoryRows == {[id |-> i, slug |-> SlugOf(i), isActive |-> a] : i \in CatalogueIds, a \in BOOLEAN}
BannerRows == [id : CatalogueIds, isActive : BOOLEAN]
CatalogueProducts ==
    [id : CatalogueIds, categoryId : {1}, name : {"milk"}, price : {1},
     isActive : BOOLEAN, isFeatured : {TRUE}]
\* prices in minor units and discount percentages shown on the home screen
PriceInputs == {0, 1, 2, 50, 99, 100, 150, 199, 1000, 2599}
Percentages == {0, 5, 10, 15, 25, 33, 50, 75, 99, 100}
\* coupons that validate against any subtotal, of either type, capped or not
DiscountCoupons ==
    [code : CouponCodes, isActive : {TRUE}, expiryDate : {None}, usageLimit : {None},
     usageCount : {0}, minOrderAmount : {None},
     discountType : {"percentage", "fixed"}, discountValue : {50, 100},
     maxDiscount : {None, Some(1)}]
\* limit and offset of products.list; an offset without a limit is not drawn
\* (the query would carry OFFSET without LIMIT)
Limits == {None, Some(0), Some(1), Some(2)}
Offsets == {None, Some(0), Some(1)}
Pages == {pg \in [limit : Limits, offset : Offsets] :
            (pg.limit \in {None, Some(0)}) => (pg.offset \in {None, Some(0)})}

\* ctx.user of a request: None without a valid session
Contexts == {[user |-> None]} \cup {[user |-> Some(u)] : u \in Users}
Anon == [user |-> None]
User1 == [user |-> Some(1)]

VARIABLES
    db,              \* TRUE iff getDb() yields a drizzle handle (DATABASE_URL set)
    now,             \* wall clock
    cartItems,       \* table cartItems: set of rows
    nextCartId,      \* its AUTO_INCREMENT counter
    wishlistItems,   \* table wishlistItems
    nextWishlistId,
    addresses,       \* table addresses
    nextAddressId,
    orders,          \* table orders (unique orderNumber)
    nextOrderId,
    orderItems,      \* table orderItems
    nextOrderItemId,
    reviews,         \* table reviews
    nextReviewId,
    coupons,         \* table coupons (administrator-managed, unique code)
    users,           \* table users (unique openId)
    nextUserId,
    products,        \* table products (administrator-managed)
    categories,      \* table categories (administrator-managed, unique slug)
    banners,         \* table banners (administrator-managed)
    rpc,             \* the procedure call handled by the last step
    result           \* what that call returned or threw

cartT == <<cartItems, nextCartId>>
wishT == <<wishlistItems, nextWishlistId>>
addrT == <<addresses, nextAddressId>>
orderT == <<orders, nextOrderId>>
itemT == <<orderItems, nextOrderItemId>>
reviewT == <<reviews, nextReviewId>>
couponT == <<coupons>>
userT == <<users, nextUserId>>
productT == <<products>>
catT == <<categories>>
bannerT == <<banners>>
store == <<cartT, wishT, addrT, orderT, itemT, reviewT, couponT, userT, productT, catT, bannerT>>
vars == <<db, now, store, rpc, result>>

\* ------------------------------------------------------------------------
\* Results of a call
\* ------------------------------------------------------------------------
Returns(data) == result' = [code |-> "OK", data |-> data]
Throws(code) == result' = [code |-> code, data |-> None]
NoCall == [proc |-> "none", caller |-> None, input |-> <<>>]
NoResult == [code |-> "none", data |-> None]

Request(proc, ctx, input) == rpc' = [proc |-> proc, caller |-> ctx.user, input |-> input]

\* ------------------------------------------------------------------------
\* server/_core/trpc: protectedProcedure.  A call without ctx.user ends
\* with the UNAUTHORIZED error before the resolver runs.
\* ------------------------------------------------------------------------
protectedProcedure(ctx, resolver) ==
    IF ctx.user = None
    THEN /\ Throws("UNAUTHORIZED")
         /\ UNCHANGED <<db, now, store>>
    ELSE resolver

publicProcedure(ctx, resolver) == resolver

\* ------------------------------------------------------------------------
\* server/db.ts: CART
\* ------------------------------------------------------------------------
DbError == /\ Throws("INTERNAL_SERVER_ERROR")
           /\ UNCHANGED <<db, now, store>>

getCartItems(userId) ==
    /\ Returns(IF db THEN {r \in cartItems : r.userId = userId} ELSE {})
    /\ UNCHANGED <<db, now, store>>

addToCart(userId, productId, quantity) ==
    IF ~db THEN DbError
    ELSE /\ nextCartId <= MaxCartRows
         /\ cartItems' = cartItems \cup
               {[id |-> nextCartId, userId |-> userId,
                 productId |-> productId, quantity |-> quantity]}
         /\ nextCartId' = nextCartId + 1
         /\ Returns(nextCartId)
         /\ UNCHANGED <<db, now, wishT, addrT, orderT, itemT, reviewT, couponT, userT, productT, catT, bannerT>>

updateCartItem(id, quantity) ==
    IF ~db THEN DbError
    ELSE /\ cartItems' = {IF r.id = id THEN [r EXCEPT !.quantity = quantity] ELSE r
                            : r \in cartItems}
         /\ Returns(None)
         /\ UNCHANGED <<db, now, nextCartId, wishT, addrT, orderT, itemT, reviewT, couponT, userT, productT, catT, bannerT>>

removeFromCart(id) ==
    IF ~db THEN DbError
    ELSE /\ cartItems' = {r \in cartItems : r.id # id}
         /\ Returns(None)
         /\ UNCHANGED <<db, now, nextCartId, wishT, addrT, orderT, itemT, reviewT, couponT, userT, productT, catT, bannerT>>

clearCart(userId) ==
    IF ~db THEN DbError
    ELSE /\ cartItems' = {r \in cartItems : r.userId # userId}
         /\ Returns(None)
         /\ UNCHANGED <<db, now, nextCartId, wishT, addrT, orderT, itemT, reviewT, couponT, userT, productT, catT, bannerT>>

\* ------------------------------------------------------------------------
\* server/routers.ts: cart
\* ------------------------------------------------------------------------
cart_list(ctx) ==
    /\ Request("cart.list", ctx, <<>>)
    /\ protectedProcedure(ctx, \E u \in ctx.user : getCartItems(u))

cart_add(ctx, productId, quantity) ==
    /\ Request("cart.add", ctx, [productId |-> productId, quantity |-> quantity])
    /\ protectedProcedure(ctx, \E u \in ctx.user : addToCart(u, productId, quantity))

\* cart.update declared on publicProcedure
cart_update_public(ctx, id, quantity) ==
    /\ Request("cart.update", ctx, [id |-> id, quantity |-> quantity])
    /\ publicProcedure(ctx, updateCartItem(id, quantity))

cart_update(ctx, id, quantity) ==
    /\ Request("cart.update", ctx, [id |-> id, quantity |-> quantity])
    /\ protectedProcedure(ctx, updateCartItem(id, quantity))

cart_remove(ctx, id) ==
    /\ Request("cart.remove", ctx, [id |-> id])
    /\ protectedProcedure(ctx, removeFromCart(id))

cart_clear(ctx) ==
    /\ Request("cart.clear", ctx, <<>>)
    /\ protectedProcedure(ctx, \E u \in ctx.user : clearCart(u))

\* ------------------------------------------------------------------------
\* server/db.ts: WISHLIST
\* ------------------------------------------------------------------------
getWishlistItems(userId) ==
    /\ Returns(IF db THEN {r \in wishlistItems : r.userId = userId} ELSE {})
    /\ UNCHANGED <<db, now, store>>

addToWishlist(userId, productId) ==
    IF ~db THEN DbError
    ELSE /\ nextWishlistId <= MaxWishlistRows
         /\ wishlistItems' = wishlistItems \cup
               {[id |-> nextWishlistId, userId |-> userId, productId |-> productId]}
         /\ nextWishlistId' = nextWishlistId + 1
         /\ Returns(nextWishlistId)
         /\ UNCHANGED <<db, now, cartT, addrT, orderT, itemT, reviewT, couponT, userT, productT, catT, bannerT>>

\* the delete filters on userId alone; productId is not used
removeFromWishlist(userId, productId) ==
    IF ~db THEN DbError
    ELSE /\ wishlistItems' = {r \in wishlistItems : r.userId # userId}
         /\ Returns(None)
         /\ UNCHANGED <<db, now, nextWishlistId, cartT, addrT, orderT, itemT, reviewT, couponT, userT, productT, catT, bannerT>>

\* ------------------------------------------------------------------------
\* server/routers.ts: wishlist
\* ------------------------------------------------------------------------
wishlist_list(ctx) ==
    /\ Request("wishlist.list", ctx, <<>>)
    /\ protectedProcedure(ctx, \E u \in ctx.user : getWishlistItems(u))

wishlist_add(ctx, productId) ==
    /\ Request("wishlist.add", ctx, [productId |-> productId])
    /\ protectedProcedure(ctx, \E u \in ctx.user : addToWishlist(u, productId))

wishlist_remove(ctx, productId) ==
    /\ Request("wishlist.remove", ctx, [productId |-> productId])
    /\ protectedProcedure(ctx, \E u \in ctx.user : removeFromWishlist(u, productId))

\* ------------------------------------------------------------------------
\* server/db.ts: ADDRESSES (the free-text columns carry no logic and are
\* left out of the rows)
\* ------------------------------------------------------------------------
getUserAddresses(userId) ==
    /\ Returns(IF db THEN {r \in addresses : r.userId = userId} ELSE {})
    /\ UNCHANGED <<db, now, store>>

addAddress(data) ==
    IF ~db THEN DbError
    ELSE /\ nextAddressId <= MaxAddressRows
         /\ addresses' = addresses \cup
               {[id |-> nextAddressId, userId |-> data.userId, type |-> data.type]}
         /\ nextAddressId' = nextAddressId + 1
         /\ Returns(nextAddressId)
         /\ UNCHANGED <<db, now, cartT, wishT, orderT, itemT, reviewT, couponT, userT, productT, catT, bannerT>>

updateAddress(id, data) ==
    IF ~db THEN DbError
    ELSE /\ addresses' =
               {IF r.id = id /\ data.type # None
                THEN [r EXCEPT !.type = CHOOSE t \in data.type : TRUE]
                ELSE r : r \in addresses}
         /\ Returns(None)
         /\ UNCHANGED <<db, now, nextAddressId, cartT, wishT, orderT, itemT, reviewT, couponT, userT, productT, catT, bannerT>>

deleteAddress(id) ==
    IF ~db THEN DbError
    ELSE /\ addresses' = {r \in addresses : r.id # id}
         /\ Returns(None)
         /\ UNCHANGED <<db, now, nextAddressId, cartT, wishT, orderT, itemT, reviewT, couponT, userT, productT, catT, bannerT>>

\* ------------------------------------------------------------------------
\* server/routers.ts: addresses
\* ------------------------------------------------------------------------
addresses_list(ctx) ==
    /\ Request("addresses.list", ctx, <<>>)
    /\ protectedProcedure(ctx, \E u \in ctx.user : getUserAddresses(u))

addresses_add(ctx, type) ==
    /\ Request("addresses.add", ctx, [type |-> type])
    /\ protectedProcedure(ctx, \E u \in ctx.user : addAddress([type |-> type, userId |-> u]))

addresses_update(ctx, id, type) ==
    /\ Request("addresses.update", ctx, [id |-> id, type |-> type])
    /\ protectedProcedure(ctx, updateAddress(id, [type |-> type]))

addresses_delete(ctx, id) ==
    /\ Request("addresses.delete", ctx, [id |-> id])
    /\ protectedProcedure(ctx, deleteAddress(id))

\* ------------------------------------------------------------------------
\* server/db.ts: ORDERS
\* ------------------------------------------------------------------------
\* a column the insert leaves out takes its schema default
OrDefault(o, default) == IF o = None THEN default ELSE CHOOSE v \in o : TRUE

\* updatedAt is ON UPDATE CURRENT_TIMESTAMP: set when the update changes the row
Touched(old, new) == IF new = old THEN old ELSE [new EXCEPT !.updatedAt = now]

\* an orders table without the unique index on orderNumber
createOrder_noUniqueIndex(data) ==
    IF ~db THEN DbError
    ELSE /\ nextOrderId <= MaxOrderRows
         /\ orders' = orders \cup
               {[id |-> nextOrderId,
                 userId |-> data.userId,
                 orderNumber |-> data.orderNumber,
                 subtotal |-> data.subtotal,
                 discountAmount |-> OrDefault(data.discountAmount, 0),
                 deliveryCharge |-> OrDefault(data.deliveryCharge, 0),
                 totalAmount |-> data.totalAmount,
                 status |-> data.status,
                 paymentStatus |-> data.paymentStatus,
                 paymentId |-> None,
                 couponCode |-> data.couponCode,
                 deliveryOtpVerified |-> FALSE,
                 updatedAt |-> now]}
         /\ nextOrderId' = nextOrderId + 1
         /\ Returns(nextOrderId)
         /\ UNCHANGED <<db, now, cartT, wishT, addrT, itemT, reviewT, couponT, userT, productT, catT, bannerT>>

\* insert into orders; the unique index on orderNumber rejects a duplicate
createOrder(data) ==
    IF ~db THEN DbError
    ELSE IF \E o \in orders : o.orderNumber = data.orderNumber
    THEN DbError
    ELSE /\ nextOrderId <= MaxOrderRows
         /\ orders' = orders \cup
               {[id |-> nextOrderId,
                 userId |-> data.userId,
                 orderNumber |-> data.orderNumber,
                 subtotal |-> data.subtotal,
                 discountAmount |-> OrDefault(data.discountAmount, 0),
                 deliveryCharge |-> OrDefault(data.deliveryCharge, 0),
                 totalAmount |-> data.totalAmount,
                 status |-> data.status,
                 paymentStatus |-> data.paymentStatus,
                 paymentId |-> None,
                 couponCode |-> data.couponCode,
                 deliveryOtpVerified |-> FALSE,
                 updatedAt |-> now]}
         /\ nextOrderId' = nextOrderId + 1
         /\ Returns(nextOrderId)
         /\ UNCHANGED <<db, now, cartT, wishT, addrT, itemT, reviewT, couponT, userT, productT, catT, bannerT>>

getOrderById(id) ==
    /\ Returns(IF db THEN {o \in orders : o.id = id} ELSE None)
    /\ UNCHANGED <<db, now, store>>

getUserOrders(userId) ==
    /\ Returns(IF db THEN {o \in orders : o.userId = userId} ELSE {})
    /\ UNCHANGED <<db, now, store>>

\* an update that also zeroes the total of a cancelled order
updateOrderStatus_refunding(id, status) ==
    IF ~db THEN DbError
    ELSE /\ orders' =
               {IF o.id = id
                THEN Touched(o, [o EXCEPT !.status = status,
                                          !.totalAmount = IF status = "cancelled" THEN 0 ELSE @])
                ELSE o : o \in orders}
         /\ Returns(None)
         /\ UNCHANGED <<db, now, nextOrderId, cartT, wishT, addrT, itemT, reviewT, couponT, userT, productT, catT, bannerT>>

updateOrderStatus(id, status) ==
    IF ~db THEN DbError
    ELSE /\ orders' = {IF o.id = id THEN Touched(o, [o EXCEPT !.status = status]) ELSE o
                         : o \in orders}
         /\ Returns(None)
         /\ UNCHANGED <<db, now, nextOrderId, cartT, wishT, addrT, itemT, reviewT, couponT, userT, productT, catT, bannerT>>

updatePaymentStatus(id, paymentStatus, paymentId) ==
    IF ~db THEN DbError
    ELSE /\ orders' =
               {IF o.id = id
                THEN Touched(o, [o EXCEPT !.paymentStatus = paymentStatus,
                                          !.paymentId = IF paymentId # None THEN paymentId ELSE @])
                ELSE o : o \in orders}
         /\ Returns(None)
         /\ UNCHANGED <<db, now, nextOrderId, cartT, wishT, addrT, itemT, reviewT, couponT, userT, productT, catT, bannerT>>

\* ------------------------------------------------------------------------
\* server/routers.ts: orders
\* ------------------------------------------------------------------------
orders_list(ctx) ==
    /\ Request("orders.list", ctx, <<>>)
    /\ protectedProcedure(ctx, \E u \in ctx.user : getUserOrders(u))

orders_byId(ctx, id) ==
    /\ Request("orders.byId", ctx, [id |-> id])
    /\ protectedProcedure(ctx, getOrderById(id))

\* a resolver that spreads the unstripped input over the server's fields
FromClient(input, key, server) == IF key \in DOMAIN input THEN input[key] ELSE server

\* z.object strips the keys it does not declare, and the resolver writes
\* its own fields after the spread input: the server's value is stored
Declared(input, key, server) == server

\* orderNumber is ORD-<Date.now()>-<random suffix>
orders_create(ctx, figures, couponCode, suffix) ==
    /\ Request("orders.create", ctx, [figures |-> figures, couponCode |-> couponCode])
    /\ protectedProcedure(ctx, \E u \in ctx.user :
          createOrder([subtotal |-> figures.subtotal,
                       discountAmount |-> figures.discountAmount,
                       deliveryCharge |-> figures.deliveryCharge,
                       totalAmount |-> figures.totalAmount,
                       couponCode |-> couponCode,
                       userId |-> Declared(figures, "userId", u),
                       orderNumber |-> Declared(figures, "orderNumber", <<now, suffix>>),
                       paymentStatus |-> Declared(figures, "paymentStatus", "pending"),
                       status |-> Declared(figures, "status", "pending")]))

orders_updateStatus(ctx, id, status) ==
    /\ Request("orders.updateStatus", ctx, [id |-> id, status |-> status])
    /\ protectedProcedure(ctx, updateOrderStatus(id, status))

orders_updatePaymentStatus(ctx, id, paymentStatus, paymentId) ==
    /\ Request("orders.updatePaymentStatus", ctx,
               [id |-> id, paymentStatus |-> paymentStatus, paymentId |-> paymentId])
    /\ protectedProcedure(ctx, updatePaymentStatus(id, paymentStatus, paymentId))

\* ------------------------------------------------------------------------
\* server/db.ts: ORDER ITEMS
\* ------------------------------------------------------------------------
createOrderItem(data) ==
    IF ~db THEN DbError
    ELSE /\ nextOrderItemId <= MaxOrderItemRows
         /\ orderItems' = orderItems \cup
               {[id |-> nextOrderItemId, orderId |-> data.orderId,
                 productId |-> data.productId, productName |-> data.productName,
                 quantity |-> data.quantity, price |-> data.price]}
         /\ nextOrderItemId' = nextOrderItemId + 1
         /\ Returns(nextOrderItemId)
         /\ UNCHANGED <<db, now, cartT, wishT, addrT, orderT, reviewT, couponT, userT, productT, catT, bannerT>>

getOrderItems(orderId) ==
    /\ Returns(IF db THEN {i \in orderItems : i.orderId = orderId} ELSE {})
    /\ UNCHANGED <<db, now, store>>

\* ------------------------------------------------------------------------
\* server/routers.ts: orderItems
\* ------------------------------------------------------------------------
orderItems_byOrderId(ctx, orderId) ==
    /\ Request("orderItems.byOrderId", ctx, [orderId |-> orderId])
    /\ protectedProcedure(ctx, getOrderItems(orderId))

orderItems_create(ctx, input) ==
    /\ Request("orderItems.create", ctx, input)
    /\ protectedProcedure(ctx, createOrderItem(input))

\* ------------------------------------------------------------------------
\* server/db.ts: REVIEWS
\* ------------------------------------------------------------------------
createReview(data) ==
    IF ~db THEN DbError
    ELSE /\ nextReviewId <= MaxReviewRows
         /\ reviews' = reviews \cup
               {[id |-> nextReviewId, productId |-> data.productId,
                 userId |-> data.userId, rating |-> data.rating,
                 isVerified |-> data.isVerified]}
         /\ nextReviewId' = nextReviewId + 1
         /\ Returns(nextReviewId)
         /\ UNCHANGED <<db, now, cartT, wishT, addrT, orderT, itemT, couponT, userT, productT, catT, bannerT>>

\* ------------------------------------------------------------------------
\* server/routers.ts: reviews.create; rating is z.number().min(1).max(5),
\* checked after the session and before the resolver
\* ------------------------------------------------------------------------
\* a rating declared z.number() only
reviews_create_anyRating(ctx, input) ==
    /\ Request("reviews.create", ctx, input)
    /\ protectedProcedure(ctx, \E u \in ctx.user :
          createReview([productId |-> input.productId, rating |-> input.rating,
                        userId |-> Declared(input, "userId", u),
                        isVerified |-> Declared(input, "isVerified", FALSE)]))

reviews_create(ctx, input) ==
    /\ Request("reviews.create", ctx, input)
    /\ protectedProcedure(ctx,
          IF input.rating < 1 \/ input.rating > 5
          THEN /\ Throws("BAD_REQUEST")
               /\ UNCHANGED <<db, now, store>>
          ELSE \E u \in ctx.user :
                  createReview([productId |-> input.productId,
                                rating |-> input.rating,
                                userId |-> Declared(input, "userId", u),
                                isVerified |-> Declared(input, "isVerified", FALSE)]))

\* ------------------------------------------------------------------------
\* server/db.ts: COUPONS
\* ------------------------------------------------------------------------
\* select ... where code = ? limit 1; undefined without a store
getCouponByCode(code) ==
    IF db THEN {c \in coupons : c.code = code} ELSE None

Invalid(message) == [valid |-> FALSE, message |-> Some(message), coupon |-> None]
Valid(coupon) == [valid |-> TRUE, message |-> None, coupon |-> Some(coupon)]

\* JavaScript truthiness of a nullable number: null and 0 are falsy
Truthy(n) == \E v \in n : v # 0

\* the chain of early returns of validateCoupon
couponVerdict(found, orderAmount, time) ==
    IF found = None THEN Invalid("Coupon not found")
    ELSE LET coupon == CHOOSE c \in found : TRUE IN
         IF ~coupon.isActive THEN Invalid("Coupon is inactive")
         ELSE IF \E e \in coupon.expiryDate : time > e
              THEN Invalid("Coupon expired")
         ELSE IF Truthy(coupon.usageLimit)
                 /\ \E l \in coupon.usageLimit : coupon.usageCount >= l
              THEN Invalid("Coupon usage limit reached")
         ELSE IF Truthy(coupon.minOrderAmount)
                 /\ \E m \in coupon.minOrderAmount : orderAmount < m
              THEN Invalid("Order amount below minimum")
         ELSE Valid(coupon)

\* a validation that consumed a use of the coupon
validateCoupon_consuming(code, orderAmount) ==
    /\ Returns(couponVerdict(getCouponByCode(code), orderAmount, now))
    /\ coupons' = {IF c.code = code THEN [c EXCEPT !.usageCount = @ + 1] ELSE c
                     : c \in coupons}
    /\ UNCHANGED <<db, now, cartT, wishT, addrT, orderT, itemT, reviewT, userT, productT, catT, bannerT>>

validateCoupon(code, orderAmount) ==
    /\ Returns(couponVerdict(getCouponByCode(code), orderAmount, now))
    /\ UNCHANGED <<db, now, store>>

\* ------------------------------------------------------------------------
\* server/routers.ts: coupons
\* ------------------------------------------------------------------------
coupons_validate(ctx, code, orderAmount) ==
    /\ Request("coupons.validate", ctx, [code |-> code, orderAmount |-> orderAmount])
    /\ publicProcedure(ctx, validateCoupon(code, orderAmount))

\* ------------------------------------------------------------------------
\* server/db.ts: the reads of users, categories, products, reviews and
\* banners, and their public routes
\* ------------------------------------------------------------------------
getUserByOpenId(openId) ==
    /\ Returns(IF db THEN {u \in users : u.openId = openId} ELSE None)
    /\ UNCHANGED <<db, now, store>>

\* the session layer's call of db.getUserByOpenId
auth_getUserByOpenId(openId) ==
    /\ rpc' = [proc |-> "db.getUserByOpenId", caller |-> None, input |-> [openId |-> openId]]
    /\ getUserByOpenId(openId)

\* a list read that returns the rows whatever the handle
getCategories_noHandleCheck ==
    /\ Returns({c \in categories : c.isActive})
    /\ UNCHANGED <<db, now, store>>

getCategories ==
    /\ Returns(IF db THEN {c \in categories : c.isActive} ELSE {})
    /\ UNCHANGED <<db, now, store>>

getCategoryBySlug(slug) ==
    /\ Returns(IF db THEN {c \in categories : c.slug = slug} ELSE None)
    /\ UNCHANGED <<db, now, store>>

Least(a, b) == IF a < b THEN a ELSE b

\* the results a query over rows may give under if (limit) .limit(limit) and
\* if (offset) .offset(offset): no ORDER BY, so any rows of the right number
Paged(rows, limit, offset) ==
    LET skipped == IF Truthy(offset)
                   THEN Least(CHOOSE v \in offset : TRUE, Cardinality(rows)) ELSE 0
        left == Cardinality(rows) - skipped
        taken == IF Truthy(limit) THEN Least(CHOOSE v \in limit : TRUE, left) ELSE left
    IN {page \in SUBSET rows : Cardinality(page) = taken}

getProducts(limit, offset) ==
    /\ IF db THEN \E page \in Paged({q \in products : q.isActive}, limit, offset) : Returns(page)
       ELSE Returns({})
    /\ UNCHANGED <<db, now, store>>

getProductsByCategory(categoryId, limit, offset) ==
    /\ IF db
       THEN \E page \in Paged({q \in products : q.categoryId = categoryId}, limit, offset) :
               Returns(page)
       ELSE Returns({})
    /\ UNCHANGED <<db, now, store>>

getProductById(id) ==
    /\ Returns(IF db THEN {q \in products : q.id = id} ELSE None)
    /\ UNCHANGED <<db, now, store>>

getFeaturedProducts(limit) ==
    /\ IF db
       THEN \E page \in Paged({q \in products : q.isFeatured}, Some(limit), None) : Returns(page)
       ELSE Returns({})
    /\ UNCHANGED <<db, now, store>>

getProductReviews(productId) ==
    /\ Returns(IF db THEN {r \in reviews : r.productId = productId} ELSE {})
    /\ UNCHANGED <<db, now, store>>

getActiveBanners ==
    /\ Returns(IF db THEN {b \in banners : b.isActive} ELSE {})
    /\ UNCHANGED <<db, now, store>>

categories_list(ctx) ==
    /\ Request("categories.list", ctx, <<>>)
    /\ publicProcedure(ctx, getCategories)

categories_bySlug(ctx, slug) ==
    /\ Request("categories.bySlug", ctx, [slug |-> slug])
    /\ publicProcedure(ctx, getCategoryBySlug(slug))

products_list(ctx, input) ==
    /\ Request("products.list", ctx, input)
    /\ publicProcedure(ctx, getProducts(input.limit, input.offset))

products_byCategory(ctx, categoryId, input) ==
    /\ Request("products.byCategory", ctx,
               [categoryId |-> categoryId, limit |-> input.limit, offset |-> input.offset])
    /\ publicProcedure(ctx, getProductsByCategory(categoryId, input.limit, input.offset))

products_byId(ctx, id) ==
    /\ Request("products.byId", ctx, [id |-> id])
    /\ publicProcedure(ctx, getProductById(id))

\* input.limit || 10
products_featured(ctx, limit) ==
    /\ Request("products.featured", ctx, [limit |-> limit])
    /\ publicProcedure(ctx, getFeaturedProducts(IF Truthy(limit)
                                                THEN CHOOSE v \in limit : TRUE ELSE 10))

reviews_byProductId(ctx, productId) ==
    /\ Request("reviews.byProductId", ctx, [productId |-> productId])
    /\ publicProcedure(ctx, getProductReviews(productId))

banners_list(ctx) ==
    /\ Request("banners.list", ctx, <<>>)
    /\ publicProcedure(ctx, getActiveBanners)

\* ------------------------------------------------------------------------
\* server/db.ts: upsertUser, called by the OAuth callback
\* ------------------------------------------------------------------------
\* values[field] / updateSet[field] of a supplied field, else the fallback
Supplied(input, fallback) == IF input = None THEN fallback ELSE CHOOSE v \in input : TRUE

\* a role taken from the argument only
RoleSet_noOwner(user) == user.role

\* the role written: the argument's, else admin for ENV.ownerOpenId, else
\* none (the column default on insert, the stored role on update)
RoleSet(user) ==
    IF user.role # None THEN user.role
    ELSE IF user.openId = OwnerOpenId THEN Some("admin")
    ELSE None

\* Object.keys(updateSet).length === 0
EmptyUpdateSet(user) ==
    /\ user.name = None /\ user.email = None /\ user.loginMethod = None
    /\ user.lastSignedIn = None /\ RoleSet(user) = None

\* an update that writes values, whose lastSignedIn is always set
UpdatedLastSignedIn_fromValues(user, stored) == Supplied(user.lastSignedIn, now)

\* updateSet.lastSignedIn: the argument's, the current time when the update
\* set is otherwise empty, else not written
UpdatedLastSignedIn(user, stored) ==
    IF EmptyUpdateSet(user) THEN now ELSE Supplied(user.lastSignedIn, stored)

upsertUser(user) ==
    IF user.openId = ""
    THEN /\ Throws("INTERNAL_SERVER_ERROR")
         /\ UNCHANGED <<db, now, store>>
    ELSE IF ~db
    THEN /\ Returns(None)
         /\ UNCHANGED <<db, now, store>>
    ELSE LET roleSet == RoleSet(user)
             existing == {r \in users : r.openId = user.openId}
         IN  /\ IF existing = {}
                THEN /\ nextUserId <= MaxUserRows
                     /\ users' = users \cup
                           {[id |-> nextUserId,
                             openId |-> user.openId,
                             name |-> Supplied(user.name, None),
                             email |-> Supplied(user.email, None),
                             loginMethod |-> Supplied(user.loginMethod, None),
                             lastSignedIn |-> Supplied(user.lastSignedIn, now),
                             role |-> Supplied(roleSet, "user")]}
                     /\ nextUserId' = nextUserId + 1
                ELSE /\ users' =
                           {IF r.openId = user.openId
                            THEN [r EXCEPT
                                    !.name = Supplied(user.name, @),
                                    !.email = Supplied(user.email, @),
                                    !.loginMethod = Supplied(user.loginMethod, @),
                                    !.lastSignedIn = UpdatedLastSignedIn(user, @),
                                    !.role = Supplied(roleSet, @)]
                            ELSE r : r \in users}
                     /\ UNCHANGED nextUserId
             /\ Returns(None)
             /\ UNCHANGED <<db, now, cartT, wishT, addrT, orderT, itemT, reviewT, couponT, productT, catT, bannerT>>

\* the OAuth callback's call of db.upsertUser
oauth_upsertUser(user) ==
    /\ rpc' = [proc |-> "db.upsertUser", caller |-> None, input |-> user]
    /\ upsertUser(user)

\* ------------------------------------------------------------------------
\* Environment: the clock read by new Date(), and coupon rows written out
\* of band by an administrator (the router has no coupon mutation).
\* ------------------------------------------------------------------------
Tick ==
    /\ now < MaxTime
    /\ now' = now + 1
    /\ rpc' = NoCall /\ result' = NoResult
    /\ UNCHANGED <<db, store>>

AdminPutCouponFrom(rows) ==
    /\ db
    /\ \E row \in rows :
          coupons' = {c \in coupons : c.code # row.code} \cup {row}
    /\ rpc' = NoCall /\ result' = NoResult
    /\ UNCHANGED <<db, now, cartT, wishT, addrT, orderT, itemT, reviewT, userT, productT, catT, bannerT>>

\* products are created and edited out of band
AdminPutProduct ==
    /\ db
    /\ \E row \in ProductRows :
          products' = {q \in products : q.id # row.id} \cup {row}
    /\ rpc' = NoCall /\ result' = NoResult
    /\ UNCHANGED <<db, now, cartT, wishT, addrT, orderT, itemT, reviewT, couponT, userT,
                   catT, bannerT>>

\* catalogue rows are written out of band, whether or not this process
\* obtained its handle
AdminPutCategory ==
    /\ \E row \in CategoryRows :
          categories' = {c \in categories : c.id # row.id} \cup {row}
    /\ rpc' = NoCall /\ result' = NoResult
    /\ UNCHANGED <<db, now, cartT, wishT, addrT, orderT, itemT, reviewT, couponT, userT,
                   productT, bannerT>>

AdminPutBanner ==
    /\ \E row \in BannerRows :
          banners' = {b \in banners : b.id # row.id} \cup {row}
    /\ rpc' = NoCall /\ result' = NoResult
    /\ UNCHANGED <<db, now, cartT, wishT, addrT, orderT, itemT, reviewT, couponT, userT,
                   productT, catT>>

AdminPutCatalogueProduct ==
    /\ \E row \in CatalogueProducts :
          products' = {q \in products : q.id # row.id} \cup {row}
    /\ rpc' = NoCall /\ result' = NoResult
    /\ UNCHANGED <<db, now, cartT, wishT, addrT, orderT, itemT, reviewT, couponT, userT,
                   catT, bannerT>>

\* ------------------------------------------------------------------------
\* Initial state: empty tables; the store is reachable or not for the
\* whole life of the process (DATABASE_URL).
\* ------------------------------------------------------------------------
Init ==
    /\ db \in BOOLEAN
    /\ now = 0
    /\ cartItems = {} /\ nextCartId = 1
    /\ wishlistItems = {} /\ nextWishlistId = 1
    /\ addresses = {} /\ nextAddressId = 1
    /\ orders = {} /\ nextOrderId = 1
    /\ orderItems = {} /\ nextOrderItemId = 1
    /\ reviews = {} /\ nextReviewId = 1
    /\ coupons = {}
    /\ users = {} /\ nextUserId = 1
    /\ products = {}
    /\ categories = {}
    /\ banners = {}
    /\ rpc = NoCall
    /\ result = NoResult

NextCart ==
    \/ (\E ctx \in Contexts : cart_list(ctx))
    \/ (\E ctx \in Contexts, p \in Products, q \in Quantities : cart_add(ctx, p, q))
    \/ (\E ctx \in Contexts, id \in CartIds, q \in Quantities : cart_update(ctx, id, q))
    \/ (\E ctx \in Contexts, id \in CartIds : cart_remove(ctx, id))
    \/ (\E ctx \in Contexts : cart_clear(ctx))

SpecCart == Init /\ [][NextCart]_vars

NextWishlist ==
    \/ (\E ctx \in Contexts : wishlist_list(ctx))
    \/ (\E ctx \in Contexts, p \in Products : wishlist_add(ctx, p))
    \/ (\E ctx \in Contexts, p \in Products : wishlist_remove(ctx, p))

SpecWishlist == Init /\ [][NextWishlist]_vars

NextCoupons ==
    \/ (\E ctx \in Contexts, code \in CodeInputs, a \in OrderAmounts :
            coupons_validate(ctx, code, a))
    \/ (AdminPutCouponFrom(CouponRows))
    \/ Tick

SpecCoupons == Init /\ [][NextCoupons]_vars

\* ------------------------------------------------------------------------
\* Checkout: orders.create with every money figure a client may send
\* ------------------------------------------------------------------------
NextOrders ==
    \/ (\E ctx \in Contexts : orders_list(ctx))
    \/ (\E ctx \in Contexts, id \in OrderIds : orders_byId(ctx, id))
    \/ (\E ctx \in Contexts, f \in OrderFigures, r \in RandomSuffixes :
            orders_create(ctx, f, None, r))
    \* a client that also sends the keys the server is to set
    \/ (\E ctx \in Contexts, r \in RandomSuffixes : orders_create(ctx, ForgedFigures, None, r))

SpecOrders == Init /\ [][NextOrders]_vars

\* ------------------------------------------------------------------------
\* Order life cycle: orders placed with consistent figures, then
\* orders.updateStatus with every id and status
\* ------------------------------------------------------------------------
PlainFigures ==
    [subtotal |-> 2, discountAmount |-> None, deliveryCharge |-> None, totalAmount |-> 2]

NextOrderStatus ==
    \/ (\E ctx \in Contexts, r \in RandomSuffixes : orders_create(ctx, PlainFigures, None, r))
    \/ (\E ctx \in Contexts, id \in OrderIds, st \in Statuses : orders_updateStatus(ctx, id, st))

SpecOrderStatus == Init /\ [][NextOrderStatus]_vars

\* ------------------------------------------------------------------------
\* Store unavailable: DATABASE_URL is not set, getDb() returns null, and
\* every write of the access layer is called
\* ------------------------------------------------------------------------
InitStoreDown == Init /\ ~db

NextStoreDown ==
    \/ (\E user \in UserInputs : oauth_upsertUser(user))
    \/ (\E ctx \in Contexts, p \in Products, q \in Quantities : cart_add(ctx, p, q))
    \/ (\E ctx \in Contexts, id \in CartIds, q \in Quantities : cart_update(ctx, id, q))
    \/ (\E ctx \in Contexts, id \in CartIds : cart_remove(ctx, id))
    \/ (\E ctx \in Contexts : cart_clear(ctx))
    \/ (\E ctx \in Contexts, p \in Products : wishlist_add(ctx, p))
    \/ (\E ctx \in Contexts, p \in Products : wishlist_remove(ctx, p))
    \/ (\E ctx \in Contexts, t \in AddressTypes : addresses_add(ctx, t))
    \/ (\E ctx \in Contexts, id \in AddressIds, t \in AddressTypes :
            addresses_update(ctx, id, Some(t)))
    \/ (\E ctx \in Contexts, id \in AddressIds : addresses_delete(ctx, id))
    \/ (\E ctx \in Contexts, r \in RandomSuffixes : orders_create(ctx, PlainFigures, None, r))
    \/ (\E ctx \in Contexts, id \in OrderIds, st \in Statuses : orders_updateStatus(ctx, id, st))
    \/ (\E ctx \in Contexts, id \in OrderIds, ps \in PaymentStatuses, pid \in PaymentIds :
            orders_updatePaymentStatus(ctx, id, ps, pid))
    \/ (\E ctx \in Contexts, id \in OrderIds, q \in Quantities, pr \in Prices :
            orderItems_create(ctx, [orderId |-> id, productId |-> 1, productName |-> "milk",
                                    quantity |-> q, price |-> pr]))
    \/ (\E ctx \in Contexts, input \in ReviewInputs : reviews_create(ctx, input))

SpecStoreDown == InitStoreDown /\ [][NextStoreDown]_vars

\* ------------------------------------------------------------------------
\* Checkout with a coupon: previews (coupons.validate) and orders.create
\* carrying a coupon code, from any client in any order
\* ------------------------------------------------------------------------
\* the coupon on offer: one use in all, no expiry, no minimum
CheckoutCoupons ==
    {c \in CouponRows : /\ c.expiryDate = None /\ c.minOrderAmount = None
                        /\ c.usageLimit = Some(1) /\ c.usageCount = 0}

NextCheckout ==
    \/ (AdminPutCouponFrom(CheckoutCoupons))
    \/ (\E ctx \in Contexts, code \in CouponCodes : coupons_validate(ctx, code, PlainFigures.subtotal))
    \/ (\E ctx \in Contexts, code \in {None} \cup {Some(c) : c \in CodeInputs},
           r \in RandomSuffixes :
            orders_create(ctx, PlainFigures, code, r))

SpecCheckout == Init /\ [][NextCheckout]_vars

\* ------------------------------------------------------------------------
\* Orders and their items: orders.create, orderItems.create and the reads
\* ------------------------------------------------------------------------
NextOrderItems ==
    \/ (\E r \in RandomSuffixes : orders_create(User1, PlainFigures, None, r))
    \/ (\E id \in OrderIds, q \in {1, 2}, pr \in Prices :
            orderItems_create(User1, [orderId |-> id, productId |-> 1, productName |-> "milk",
                                      quantity |-> q, price |-> pr]))
    \/ (\E ctx \in Contexts, id \in OrderIds : orderItems_byOrderId(ctx, id))

SpecOrderItems == Init /\ [][NextOrderItems]_vars

\* ------------------------------------------------------------------------
\* History of a placed order: user 1 places an order and its item, then
\* status and payment updates, product edits and time passing
\* ------------------------------------------------------------------------
NextOrderHistory ==
    \/ (/\ Cardinality(orders) < MaxSeedRows
        /\ orders_create(User1, PlainFigures, None, 0))
    \/ (/\ Cardinality(orderItems) < MaxSeedRows
        /\ orderItems_create(User1, [orderId |-> 1, productId |-> 1, productName |-> "milk",
                                     quantity |-> 1, price |-> 2]))
    \/ (\E id \in {1}, st \in {"shipped", "cancelled"} : orders_updateStatus(User1, id, st))
    \/ (\E id \in {1}, ps \in {"completed"}, pid \in PaymentIds :
            orders_updatePaymentStatus(User1, id, ps, pid))
    \/ AdminPutProduct
    \/ Tick

SpecOrderHistory == Init /\ [][NextOrderHistory]_vars

\* ------------------------------------------------------------------------
\* Reviews
\* ------------------------------------------------------------------------
NextReviews ==
    \/ (\E ctx \in Contexts, input \in ReviewInputs : reviews_create(ctx, input))

SpecReviews == Init /\ [][NextReviews]_vars

\* ------------------------------------------------------------------------
\* Sign-ins: the OAuth callback upserts the owner and another user, with
\* and without each field, as time passes
\* ------------------------------------------------------------------------
SignIns == {u \in UserInputs : u.loginMethod = None /\ u.name # Some(None)}

NextUsers ==
    \/ (\E user \in SignIns : oauth_upsertUser(user))
    \/ Tick

SpecUsers == Init /\ [][NextUsers]_vars

\* ------------------------------------------------------------------------
\* Reads: every read of the access layer, over a catalogue that is edited
\* out of band, with the store reachable or not
\* ------------------------------------------------------------------------
\* a direct call of db.getCouponByCode
db_getCouponByCode(code) ==
    /\ rpc' = [proc |-> "db.getCouponByCode", caller |-> None, input |-> [code |-> code]]
    /\ Returns(getCouponByCode(code))
    /\ UNCHANGED <<db, now, store>>

NextReads ==
    \/ AdminPutCategory
    \/ AdminPutBanner
    \/ AdminPutCatalogueProduct
    \/ (\E openId \in OpenIds \ {""} : auth_getUserByOpenId(openId))
    \/ (\E code \in CodeInputs : db_getCouponByCode(code))
    \/ (\E ctx \in {Anon} : categories_list(ctx))
    \/ (\E ctx \in {Anon}, slug \in Slugs : categories_bySlug(ctx, slug))
    \/ (\E ctx \in {Anon}, pg \in Pages : products_list(ctx, pg))
    \/ (\E ctx \in {Anon}, c \in CatalogueIds :
            products_byCategory(ctx, c, [limit |-> None, offset |-> None]))
    \/ (\E ctx \in {Anon}, id \in CatalogueIds \cup {3} : products_byId(ctx, id))
    \/ (\E ctx \in {Anon}, l \in {None, Some(1)} : products_featured(ctx, l))
    \/ (\E ctx \in Contexts : cart_list(ctx))
    \/ (\E ctx \in Contexts : wishlist_list(ctx))
    \/ (\E ctx \in Contexts : addresses_list(ctx))
    \/ (\E ctx \in Contexts : orders_list(ctx))
    \/ (\E ctx \in Contexts, id \in OrderIds : orders_byId(ctx, id))
    \/ (\E ctx \in Contexts, id \in OrderIds : orderItems_byOrderId(ctx, id))
    \/ (\E ctx \in {Anon}, pr \in Products : reviews_byProductId(ctx, pr))
    \/ (\E ctx \in {Anon} : banners_list(ctx))

SpecReads == Init /\ [][NextReads]_vars

\* ------------------------------------------------------------------------
\* Two customers: each places orders, adds order items and addresses, and
\* calls the id-addressed updates and reads with any id
\* ------------------------------------------------------------------------
NextOwnership ==
    \/ (\E ctx \in Contexts \ {Anon} : orders_create(ctx, PlainFigures, None, 0))
    \/ (\E ctx \in Contexts \ {Anon} : addresses_add(ctx, "home"))
    \/ (\E ctx \in Contexts \ {Anon}, id \in OrderIds :
            orderItems_create(ctx, [orderId |-> id, productId |-> 1, productName |-> "milk",
                                    quantity |-> 1, price |-> 2]))
    \/ (\E ctx \in Contexts \ {Anon}, id \in OrderIds : orders_updateStatus(ctx, id, "cancelled"))
    \/ (\E ctx \in Contexts \ {Anon}, id \in OrderIds :
            orders_updatePaymentStatus(ctx, id, "completed", None))
    \/ (\E ctx \in Contexts \ {Anon}, id \in AddressIds : addresses_update(ctx, id, Some("work")))
    \/ (\E ctx \in Contexts \ {Anon}, id \in AddressIds : addresses_delete(ctx, id))
    \/ (\E ctx \in Contexts \ {Anon} : orders_list(ctx))
    \/ (\E ctx \in Contexts \ {Anon}, id \in OrderIds : orders_byId(ctx, id))
    \/ (\E ctx \in Contexts \ {Anon}, id \in OrderIds : orderItems_byOrderId(ctx, id))

SpecOwnership == Init /\ [][NextOwnership]_vars

\* ------------------------------------------------------------------------
\* app/(tabs)/index.tsx: getDiscountedPrice.  price * (1 - pct / 100) is
\* kept exactly, as a number of hundredths of a minor unit
\* ------------------------------------------------------------------------
getDiscountedPrice(price, discountPercentage) ==
    [hundredths |-> price * (100 - discountPercentage)]

\* the home screen computes the price of a product card
home_getDiscountedPrice(price, discountPercentage) ==
    /\ rpc' = [proc |-> "getDiscountedPrice", caller |-> None,
               input |-> [price |-> price, discountPercentage |-> discountPercentage]]
    /\ Returns(getDiscountedPrice(price, discountPercentage))
    /\ UNCHANGED <<db, now, store>>

NextPricing ==
    \/ (\E price \in PriceInputs, pct \in Percentages : home_getDiscountedPrice(price, pct))

SpecPricing == Init /\ [][NextPricing]_vars

\* ------------------------------------------------------------------------
\* Checkout with a discount coupon: the coupon validates, the client sends
\* its figures with the coupon code
\* ------------------------------------------------------------------------
\* figures that add up: no delivery charge, total = subtotal - discount
ConsistentFigures ==
    {f \in OrderFigures : /\ f.deliveryCharge = None
                          /\ f.totalAmount = f.subtotal - OrDefault(f.discountAmount, 0)}
NextDiscount ==
    \/ (AdminPutCouponFrom(DiscountCoupons))
    \/ (\E code \in CouponCodes : coupons_validate(Anon, code, 2))
    \/ (\E f \in ConsistentFigures, code \in CouponCodes, r \in RandomSuffixes :
            orders_create(User1, f, Some(code), r))

SpecDiscount == Init /\ [][NextDiscount]_vars

\* ------------------------------------------------------------------------
\* Sessions: every protected procedure called without a session, over a
\* store that user 1 has filled with up to MaxSeedRows rows per table
\* ------------------------------------------------------------------------

SeedCart == Cardinality(cartItems) < MaxSeedRows /\ cart_add(User1, 1, 1)
SeedWishlist == Cardinality(wishlistItems) < MaxSeedRows /\ wishlist_add(User1, 1)
SeedAddress == Cardinality(addresses) < MaxSeedRows /\ addresses_add(User1, "home")
SeedOrder ==
    /\ Cardinality(orders) < MaxSeedRows
    /\ \E r \in RandomSuffixes : orders_create(User1, PlainFigures, None, r)
SeedOrderItem ==
    /\ Cardinality(orderItems) < MaxSeedRows
    /\ orderItems_create(User1, [orderId |-> 1, productId |-> 1, productName |-> "milk",
                                 quantity |-> 1, price |-> 2])
SeedReview ==
    /\ Cardinality(reviews) < MaxSeedRows
    /\ reviews_create(User1, [productId |-> 1, rating |-> 5])

NextAuth ==
    \/ SeedCart
    \/ SeedWishlist
    \/ SeedAddress
    \/ SeedOrder
    \/ SeedOrderItem
    \/ SeedReview
    \/ (cart_list(Anon))
    \/ (\E p \in Products, q \in Quantities : cart_add(Anon, p, q))
    \/ (\E id \in CartIds, q \in Quantities : cart_update(Anon, id, q))
    \/ (\E id \in CartIds : cart_remove(Anon, id))
    \/ (cart_clear(Anon))
    \/ (wishlist_list(Anon))
    \/ (\E p \in Products : wishlist_add(Anon, p))
    \/ (\E p \in Products : wishlist_remove(Anon, p))
    \/ (addresses_list(Anon))
    \/ (\E t \in AddressTypes : addresses_add(Anon, t))
    \/ (\E id \in AddressIds, t \in AddressTypes : addresses_update(Anon, id, Some(t)))
    \/ (\E id \in AddressIds : addresses_delete(Anon, id))
    \/ (orders_list(Anon))
    \/ (\E id \in OrderIds : orders_byId(Anon, id))
    \/ (\E r \in RandomSuffixes : orders_create(Anon, PlainFigures, None, r))
    \/ (\E id \in OrderIds, st \in {"delivered", "cancelled"} : orders_updateStatus(Anon, id, st))
    \/ (\E id \in OrderIds, pid \in PaymentIds :
            orders_updatePaymentStatus(Anon, id, "completed", pid))
    \/ (\E id \in OrderIds : orderItems_byOrderId(Anon, id))
    \/ (\E id \in OrderIds :
            orderItems_create(Anon, [orderId |-> id, productId |-> 1, productName |-> "milk",
                                     quantity |-> 1, price |-> 1]))
    \/ (\E input \in {i \in ReviewInputs : i.productId = 1} : reviews_create(Anon, input))

SpecAuth == Init /\ [][NextAuth]_vars

\* ------------------------------------------------------------------------
\* Rows addressed by id: user 1 has a cart row, an address and an order;
\* updates and reads name ids that exist and ids that do not
\* ------------------------------------------------------------------------
NextById ==
    \/ SeedCart
    \/ SeedAddress
    \/ SeedOrder
    \/ (\E id \in CartIds : cart_update(User1, id, 2))
    \/ (\E id \in AddressIds : addresses_update(User1, id, Some("work")))
    \/ (\E id \in OrderIds : orders_updateStatus(User1, id, "cancelled"))
    \/ (\E id \in OrderIds : orders_updatePaymentStatus(User1, id, "completed", Some("pay_1")))
    \/ (\E id \in OrderIds : orders_byId(User1, id))
    \/ (\E ctx \in {Anon}, id \in CatalogueIds \cup {3} : products_byId(ctx, id))
    \/ (\E ctx \in {Anon}, slug \in Slugs : categories_bySlug(ctx, slug))
    \/ (\E code \in CodeInputs : db_getCouponByCode(code))

SpecById == Init /\ [][NextById]_vars

\* ------------------------------------------------------------------------
\* The whole router
\* ------------------------------------------------------------------------
Next ==
    \/ NextCart \/ NextWishlist \/ NextCoupons \/ NextOrders \/ NextOrderStatus
    \/ NextAuth \/ NextStoreDown \/ NextCheckout \/ NextOrderItems \/ NextOrderHistory
    \/ NextReviews \/ NextUsers \/ NextReads \/ NextById \/ NextOwnership
    \/ NextPricing \/ NextDiscount

Spec == Init /\ [][Next]_vars

\* ========================================================================
\* Properties
\* ========================================================================
ProtectedProcs ==
    {"cart.list", "cart.add", "cart.update", "cart.remove", "cart.clear",
     "wishlist.list", "wishlist.add", "wishlist.remove",
     "addresses.list", "addresses.add", "addresses.update", "addresses.delete",
     "orders.list", "orders.byId", "orders.create", "orders.updateStatus",
     "orders.updatePaymentStatus", "orderItems.byOrderId", "orderItems.create",
     "reviews.create"}
CartProcs == {"cart.list", "cart.add", "cart.update", "cart.remove", "cart.clear"}
TerminalStatuses == {"delivered", "cancelled"}

\* C1: every stored order has totalAmount = subtotal - discountAmount +
\* deliveryCharge and totalAmount >= 0.
C1_OrderTotalConsistent ==
    \A o \in orders :
        /\ o.totalAmount = o.subtotal - o.discountAmount + o.deliveryCharge
        /\ o.totalAmount >= 0

\* The rejection the specification's precedence list assigns to a coupon
\* lookup: not found, inactive, expired, usage limit reached, below minimum.
FirstFailingCheck(found, orderAmount, time) ==
    IF found = None THEN Some("Coupon not found")
    ELSE LET c == CHOOSE x \in found : TRUE IN
         IF c.isActive = FALSE THEN Some("Coupon is inactive")
         ELSE IF c.expiryDate # None /\ (\E e \in c.expiryDate : e < time)
              THEN Some("Coupon expired")
         ELSE IF c.usageLimit # None /\ (\E l \in c.usageLimit : c.usageCount >= l)
              THEN Some("Coupon usage limit reached")
         ELSE IF c.minOrderAmount # None /\ (\E m \in c.minOrderAmount : orderAmount < m)
              THEN Some("Order amount below minimum")
         ELSE None

ValidatedCoupon == {c \in coupons : rpc.proc = "coupons.validate" /\ c.code = rpc.input.code}
Unexpired(c) == \A e \in c.expiryDate : ~(e < now)
UnderLimit(c) == \A l \in c.usageLimit : c.usageCount < l

\* C2: a validation reports exactly the first failing check of the list
\* not found, inactive, expired, usage limit reached, below minimum, and is
\* valid when no check fails.
C2_FirstFailingCheckReported ==
    rpc.proc = "coupons.validate" =>
        LET reason == FirstFailingCheck(ValidatedCoupon, rpc.input.orderAmount, now) IN
        /\ result.data.message = reason
        /\ result.data.valid = (reason = None)

\* C3: an existing, active, unexpired coupon whose usageLimit is non-null
\* and whose usageCount >= usageLimit is rejected with usage limit reached.
C3_UsageLimitRejects ==
    \A c \in ValidatedCoupon :
        (/\ c.isActive
         /\ Unexpired(c)
         /\ c.usageLimit # None
         /\ \E l \in c.usageLimit : c.usageCount >= l)
        => result.data = Invalid("Coupon usage limit reached")

\* C4: an existing, active, unexpired coupon under its usage limit is valid
\* (with the coupon record) exactly when orderAmount >= minOrderAmount or no
\* minimum is set, and is otherwise rejected as below minimum.
C4_MinimumOrderDecides ==
    \A c \in ValidatedCoupon :
        (c.isActive /\ Unexpired(c) /\ UnderLimit(c))
        => IF \A m \in c.minOrderAmount : rpc.input.orderAmount >= m
           THEN result.data = Valid(c)
           ELSE result.data = Invalid("Order amount below minimum")

\* C5: a coupons.validate call changes no stored row, and a second call
\* with the same input at the same time, nothing written in between,
\* returns what the first returned.
C5_ValidateSideEffectFree ==
    [][ /\ rpc'.proc = "coupons.validate" => store' = store
        /\ (/\ rpc.proc = "coupons.validate"
            /\ rpc'.proc = "coupons.validate"
            /\ rpc'.input = rpc.input
            /\ now' = now)
           => result' = result ]_vars

C5_Witness ==
    /\ rpc.proc = "coupons.validate"
    /\ result.data.valid
    /\ \E c \in coupons : c.usageLimit = Some(1) /\ c.usageCount = 0

\* the forward order of the order statuses
StatusRank(st) ==
    CASE st = "pending" -> 0
      [] st = "confirmed" -> 1
      [] st = "processing" -> 2
      [] st = "shipped" -> 3
      [] st = "delivered" -> 4
      [] OTHER -> 5

MovesForward(from, to) ==
    /\ from \notin TerminalStatuses
    /\ \/ to = "cancelled"
       \/ StatusRank(from) < StatusRank(to)

\* C6: an order's status only moves forward (or to cancelled from a
\* non-terminal status), and an updateStatus call on a delivered or
\* cancelled order is rejected and leaves the status as it is.
C6_StatusForwardOnly ==
    [][ \A o \in orders : \A o2 \in orders' :
          o2.id = o.id =>
            /\ o2.status = o.status \/ MovesForward(o.status, o2.status)
            /\ (/\ rpc'.proc = "orders.updateStatus"
                /\ rpc'.caller # None
                /\ rpc'.input.id = o.id
                /\ o.status \in TerminalStatuses)
               => result'.code # "OK" ]_vars

\* C7: a step that takes an order from shipped to delivered is a
\* successful delivery-OTP verification of that order, never an
\* orders.updateStatus call.
C7_DeliveredOnlyByOtp ==
    [][ \A o \in orders : \A o2 \in orders' :
          (o2.id = o.id /\ o.status = "shipped" /\ o2.status = "delivered")
          => (o2.deliveryOtpVerified /\ rpc'.proc # "orders.updateStatus") ]_vars

\* C8: a cart procedure called by user u returns only u's rows and leaves
\* every cart row of every other user as it was.
C8_CartScopedToCaller ==
    [][ \A u \in Users :
          (rpc'.proc \in CartProcs /\ rpc'.caller = Some(u))
          => /\ {r \in cartItems' : r.userId # u} = {r \in cartItems : r.userId # u}
             /\ (rpc'.proc = "cart.list" /\ result'.code = "OK")
                => \A r \in result'.data : r.userId = u ]_vars

\* C9: wishlist.remove{productId} by user u keeps every wishlist row that
\* is not u's row for that productId.
C9_WishlistRemoveOnlyThatProduct ==
    [][ \A u \in Users :
          (rpc'.proc = "wishlist.remove" /\ rpc'.caller = Some(u))
          => \A r \in wishlistItems :
                (r.userId # u \/ r.productId # rpc'.input.productId)
                => r \in wishlistItems' ]_vars

\* C10: a protected procedure called without a session ends with
\* UNAUTHORIZED, returns no data and leaves the store unchanged.
C10_UnauthorizedTouchesNothing ==
    [][ (rpc'.proc \in ProtectedProcs /\ rpc'.caller = None)
        => /\ result'.code = "UNAUTHORIZED"
           /\ result'.data = None
           /\ store' = store ]_vars

C10_Witness ==
    /\ rpc.proc = "cart.clear"
    /\ rpc.caller = None
    /\ result.code = "UNAUTHORIZED"
    /\ cartItems # {} /\ wishlistItems # {} /\ addresses # {}
    /\ orders # {} /\ orderItems # {} /\ reviews # {}

\* the write operations of the access layer, by the call that reaches them
WriteProcs ==
    {"db.upsertUser", "cart.add", "cart.update", "cart.remove", "cart.clear",
     "wishlist.add", "wishlist.remove", "addresses.add", "addresses.update",
     "addresses.delete", "orders.create", "orders.updateStatus",
     "orders.updatePaymentStatus", "orderItems.create", "reviews.create"}

\* C11: with the store unavailable every write operation ends with an
\* error; none returns normally.
C11_WritesFailWhenStoreDown ==
    (~db /\ rpc.proc \in WriteProcs) => result.code # "OK"

OrdersCarrying(code) == {o \in orders : o.couponCode = Some(code)}

\* C12: the orders carrying the code of a coupon with usage limit L never
\* number more than L.
C12_UsageLimitBoundsOrders ==
    \A c \in coupons : \A L \in c.usageLimit : Cardinality(OrdersCarrying(c.code)) <= L

\* C13: orders.create with a couponCode that validation rejects for the
\* order's subtotal stores no order and returns the rejection reason.
C13_RejectedCouponCreatesNoOrder ==
    [][ \A code \in CodeInputs :
          LET verdict == couponVerdict(getCouponByCode(code), rpc'.input.figures.subtotal, now)
          IN (/\ rpc'.proc = "orders.create"
              /\ rpc'.caller # None
              /\ db
              /\ rpc'.input.couponCode = Some(code)
              /\ ~verdict.valid)
             => /\ orders' = orders
                /\ result'.code # "OK"
                /\ result'.data = verdict.message ]_vars

\* C14: the order stored by a successful orders.create has status pending,
\* paymentStatus pending, the caller's id as userId and the orderNumber the
\* server computed from its clock and its random suffix, whatever the input.
C14_ServerSetsOrderFields ==
    [][ (rpc'.proc = "orders.create" /\ result'.code = "OK")
        => \E o \in orders' :
             /\ orders' = orders \cup {o}
             /\ o \notin orders
             /\ o.id = result'.data
             /\ o.status = "pending"
             /\ o.paymentStatus = "pending"
             /\ rpc'.caller = Some(o.userId)
             /\ \E r \in RandomSuffixes : o.orderNumber = <<now, r>> ]_vars

\* user 1 sent userId 2, orderNumber <<0, 0>>, paymentStatus completed and
\* status delivered, and the order was stored
C14_Witness ==
    /\ rpc.proc = "orders.create"
    /\ rpc.caller = Some(1)
    /\ rpc.input.figures = ForgedFigures
    /\ result.code = "OK"
    /\ \E o \in orders : o.id = result.data /\ o.orderNumber = <<0, 1>>

\* C15: no two stored orders have the same orderNumber.
C15_OrderNumberUnique ==
    \A o1, o2 \in orders : o1.orderNumber = o2.orderNumber => o1.id = o2.id

\* two orders of the same timestamp are stored, and a further orders.create
\* that drew a suffix already taken was refused by the unique index
C15_Witness ==
    /\ \E o1, o2 \in orders : o1.id # o2.id /\ o1.orderNumber[1] = o2.orderNumber[1]
    /\ rpc.proc = "orders.create"
    /\ rpc.caller # None
    /\ db
    /\ result.code = "INTERNAL_SERVER_ERROR"

RECURSIVE ItemsTotal(_)
ItemsTotal(items) ==
    IF items = {} THEN 0
    ELSE LET i == CHOOSE x \in items : TRUE
         IN i.price * i.quantity + ItemsTotal(items \ {i})

\* C16: for every stored order, price x quantity summed over its order
\* items equals the order's subtotal.
C16_ItemsSumToSubtotal ==
    \A o \in orders : ItemsTotal({i \in orderItems : i.orderId = o.id}) = o.subtotal

\* the order's fields an update may write, as the claim lists them and as
\* updatePaymentStatus and the updatedAt column add to them
ClaimedMutable == {"status", "paymentStatus", "deliveryOtpVerified"}
Mutable == ClaimedMutable \cup {"paymentId", "updatedAt"}

FrameOfOrders(mutable) ==
    \A o \in orders : \E n \in orders' :
        /\ n.id = o.id
        /\ \A f \in DOMAIN o \ mutable : n[f] = o[f]

\* C17 as stated: no step changes a field of a stored order other than
\* status, paymentStatus and the delivery-OTP verification fields, and no
\* step changes a stored order item.
C17_OnlyStatusFieldsChange ==
    [][ FrameOfOrders(ClaimedMutable) /\ orderItems \subseteq orderItems' ]_vars

\* C17 as amended: no step changes a field of a stored order other than
\* status, paymentStatus, paymentId, updatedAt and the delivery-OTP
\* verification fields, and no step changes a stored order item.
C17_OrderFrame ==
    [][ FrameOfOrders(Mutable) /\ orderItems \subseteq orderItems' ]_vars

\* an order with its item was cancelled and paid, and the product it names
\* was renamed and repriced afterwards
C17_Witness ==
    /\ \E o \in orders : /\ o.status = "cancelled"
                         /\ o.paymentId = Some("pay_1")
                         /\ o.updatedAt > 0
                         /\ \E i \in orderItems :
                              /\ i.orderId = o.id
                              /\ \E q \in products :
                                   /\ q.id = i.productId
                                   /\ q.name # i.productName
                                   /\ q.price # i.price

\* C18: the cart holds at most one row per (userId, productId).
C18_OneCartRowPerProduct ==
    \A r1, r2 \in cartItems :
        (r1.userId = r2.userId /\ r1.productId = r2.productId) => r1.id = r2.id

\* C19: every cart row has quantity >= 1.
C19_CartQuantityPositive ==
    \A r \in cartItems : r.quantity >= 1

\* C20: a review stored by reviews.create has a rating in 1..5, the
\* caller's id as userId and isVerified false, whatever the input; a call
\* with a rating outside 1..5 ends with a validation error and stores no row.
C20_ReviewFieldsForced ==
    [][ rpc'.proc = "reviews.create" /\ rpc'.caller # None
        => /\ result'.code = "OK"
              => \E r \in reviews' :
                   /\ reviews' = reviews \cup {r}
                   /\ r \notin reviews
                   /\ r.rating \in 1..5
                   /\ rpc'.caller = Some(r.userId)
                   /\ r.isVerified = FALSE
           /\ rpc'.input.rating \notin 1..5
              => /\ result'.code = "BAD_REQUEST"
                 /\ store' = store ]_vars

\* user 1 sent isVerified true and userId 2 with a rating of 5, and the
\* review was stored
C20_Witness ==
    /\ rpc.proc = "reviews.create"
    /\ rpc.caller = Some(1)
    /\ "isVerified" \in DOMAIN rpc.input
    /\ result.code = "OK"
    /\ \E r \in reviews : r.id = result.data /\ r.userId = 1 /\ ~r.isVerified

\* the step is a first upsert for openId: it stored the row r
FirstUpsert(r) ==
    /\ rpc'.proc = "db.upsertUser"
    /\ r \in users'
    /\ r.openId = rpc'.input.openId
    /\ \A q \in users : q.openId # r.openId

\* C21 as stated: the row a first upsertUser stores for the owner openId
\* has role admin, and for another openId with no role supplied role user.
C21_OwnerAdminOthersUser ==
    [][ \A r \in users' :
          FirstUpsert(r)
          => /\ r.openId = OwnerOpenId => r.role = "admin"
             /\ (r.openId # OwnerOpenId /\ rpc'.input.role = None) => r.role = "user" ]_vars

\* C21 as amended: the row a first upsertUser with no role supplied stores
\* has role admin for the owner openId and role user for another openId.
C21_RoleOnFirstUpsert ==
    [][ \A r \in users' :
          (FirstUpsert(r) /\ rpc'.input.role = None)
          => r.role = IF r.openId = OwnerOpenId THEN "admin" ELSE "user" ]_vars

\* the owner and another user were each stored by upserts without a role
C21_Witness ==
    /\ rpc.proc = "db.upsertUser"
    /\ rpc.input.role = None
    /\ \E r \in users : r.openId = OwnerOpenId /\ r.role = "admin"
    /\ \E r \in users : r.openId # OwnerOpenId /\ r.role = "user"

UserFields == {"name", "email", "loginMethod", "lastSignedIn", "role"}
NothingSupplied(user) == \A f \in UserFields : user[f] = None

\* what an upsertUser step leaves alone; refreshes(user) tells when the
\* step is to set lastSignedIn to the current time
UpsertFrame(refreshes(_)) ==
    LET user == rpc'.input IN
    rpc'.proc = "db.upsertUser"
    => /\ user.openId = "" => (result'.code # "OK" /\ store' = store)
       /\ \A r1, r2 \in users' : r1.openId = r2.openId => r1 = r2
       /\ \A r \in users :
            \E n \in users' :
               /\ n.id = r.id /\ n.openId = r.openId
               /\ r.openId # user.openId => n = r
               /\ (r.openId = user.openId /\ db)
                  => /\ \A f \in {"name", "email", "loginMethod"} :
                          user[f] = None => n[f] = r[f]
                     /\ user.role = None
                        => n.role = IF r.openId = OwnerOpenId THEN "admin" ELSE r.role
                     /\ user.lastSignedIn = None
                        => n.lastSignedIn = IF refreshes(user) THEN now ELSE r.lastSignedIn

RefreshesAsClaimed(user) == NothingSupplied(user)
Refreshes(user) == NothingSupplied(user) /\ user.openId # OwnerOpenId

ReadProcs ==
    {"db.getUserByOpenId", "db.getCouponByCode", "categories.list", "categories.bySlug",
     "products.list", "products.byCategory", "products.byId", "products.featured",
     "cart.list", "wishlist.list", "addresses.list", "orders.list", "orders.byId",
     "orderItems.byOrderId", "reviews.byProductId", "banners.list"}

\* the call reached the access layer: it was not refused for want of a session
Admitted == rpc.proc \in ProtectedProcs => rpc.caller # None

\* C22: with the store unavailable every read of the access layer returns
\* the empty list, or absent for a single-row read, and raises no error.
C22_ReadsEmptyWhenStoreDown ==
    (~db /\ rpc.proc \in ReadProcs /\ Admitted) => result = [code |-> "OK", data |-> {}]

\* the store holds shown categories, banners and products, the handle is
\* missing, and categories.list returned the empty list
C22_Witness ==
    /\ ~db
    /\ rpc.proc = "categories.list"
    /\ result = [code |-> "OK", data |-> {}]
    /\ \E c \in categories : c.isActive
    /\ \E b \in banners : b.isActive
    /\ \E q \in products : q.isActive

\* the rows a page of n rows is to have: all that is left after the offset,
\* and no more than the limit when a limit is given
PageSize(n, input) ==
    LET skipped == IF input.offset = None THEN 0 ELSE Least(CHOOSE v \in input.offset : TRUE, n)
    IN IF input.limit = None THEN n - skipped
       ELSE Least(CHOOSE v \in input.limit : TRUE, n - skipped)

\* C24: categories.list, products.list and banners.list return exactly the
\* stored rows whose active flag is true, products.list restricted by limit
\* and offset when given; a hidden row is never in the result.
C24_ListsReturnActiveRows ==
    db => /\ rpc.proc = "categories.list" => result.data = {c \in categories : c.isActive}
          /\ rpc.proc = "banners.list" => result.data = {b \in banners : b.isActive}
          /\ rpc.proc = "products.list"
             => LET active == {q \in products : q.isActive}
                IN /\ result.data \subseteq active
                   /\ Cardinality(result.data) = PageSize(Cardinality(active), rpc.input)

\* the call names a row of the table by an id that no stored row has
NoRow(table) == \A r \in table : r.id # rpc'.input.id

\* C23: cart.update, addresses.update, orders.updateStatus and
\* orders.updatePaymentStatus with an id that matches no stored row end
\* with an explicit failure and change no row; a read by id, slug or code
\* that matches no row returns absent without an error.
C23_UnknownIdFailsOnWrite ==
    [][ (db /\ rpc'.caller # None)
        => /\ \/ rpc'.proc = "cart.update" /\ NoRow(cartItems)
              \/ rpc'.proc = "addresses.update" /\ NoRow(addresses)
              \/ rpc'.proc \in {"orders.updateStatus", "orders.updatePaymentStatus"}
                 /\ NoRow(orders)
              => (result'.code # "OK" /\ store' = store)
           /\ (rpc'.proc = "orders.byId" /\ NoRow(orders))
              => result' = [code |-> "OK", data |-> None] ]_vars

\* what user u may not touch: the orders and addresses of the others
OthersRows(table, u) == {r \in table : r.userId # u}

\* C28: orders.updateStatus, orders.updatePaymentStatus, addresses.update
\* and addresses.delete called by user u leave every order and address
\* whose userId differs from u unchanged.
C28_MutationsKeepOthersRows ==
    [][ \A u \in Users :
          (/\ rpc'.caller = Some(u)
           /\ rpc'.proc \in {"orders.updateStatus", "orders.updatePaymentStatus",
                             "addresses.update", "addresses.delete"})
          => /\ OthersRows(orders', u) = OthersRows(orders, u)
             /\ OthersRows(addresses', u) = OthersRows(addresses, u) ]_vars

\* C29: orders.list and orders.byId called by user u return only orders
\* whose userId is u, and orderItems.byOrderId only items of such orders.
C29_OrderReadsScopedToCaller ==
    \A u \in Users :
        (rpc.caller = Some(u) /\ result.code = "OK")
        => /\ rpc.proc \in {"orders.list", "orders.byId"}
              => \A o \in result.data : o.userId = u
           /\ rpc.proc = "orderItems.byOrderId"
              => \A i \in result.data : \A o \in orders : o.id = i.orderId => o.userId = u

\* C25: for a price >= 0 in minor units and a discountPercentage in 0..100
\* getDiscountedPrice gives price x (1 - discountPercentage/100), which is
\* <= price and a whole number of minor units.
C25_DiscountedPriceWhole ==
    rpc.proc = "getDiscountedPrice"
    => LET price == rpc.input.price
           pct == rpc.input.discountPercentage
           h == result.data.hundredths
       IN /\ h = price * (100 - pct)
          /\ h <= price * 100
          /\ h % 100 = 0

\* the discount of spec section 4.1 for a coupon and a subtotal
Uncapped(c, subtotal) ==
    IF c.discountType = "fixed" THEN c.discountValue
    ELSE (subtotal * c.discountValue) \div 100
ExpectedDiscount(c, subtotal) ==
    IF c.maxDiscount = None THEN Uncapped(c, subtotal)
    ELSE Least(CHOOSE v \in c.maxDiscount : TRUE, Uncapped(c, subtotal))

\* C27: the order stored by a checkout with a coupon that validates
\* against the subtotal has discountAmount min(maxDiscount, discountValue)
\* for a fixed coupon and min(maxDiscount, subtotal x discountValue / 100)
\* for a percentage coupon, uncapped when maxDiscount is absent.
C27_CheckoutAppliesCouponDiscount ==
    [][ \A c \in coupons :
          (/\ rpc'.proc = "orders.create"
           /\ result'.code = "OK"
           /\ rpc'.input.couponCode = Some(c.code)
           /\ couponVerdict({c}, rpc'.input.figures.subtotal, now).valid)
          => \A o \in orders' \ orders :
                o.discountAmount = ExpectedDiscount(c, o.subtotal) ]_vars

====
